---- MODULE Spec2Model ----
(***************************************************************************)
(* ExploreEase client-side scripts: the package-comparison selection and   *)
(* its compare link (static/js/main.js), the search debounce               *)
(* (static/js/main.js) and the Mapbox wrapper (static/js/mapbox.js).       *)
(*                                                                         *)
(* Text is modelled as a sequence of tokens: a token is either one of the  *)
(* URI's reserved pieces ("?", "&", "=") or a run of unreserved            *)
(* characters ("/compare", "package_id", "p1").  String concatenation is   *)
(* sequence concatenation.                                                 *)
(***************************************************************************)
EXTENDS Integers, Sequences, FiniteSets, TLC

VARIABLES
    \* main.js, package comparison (the page under observation)
    selectedPackages,   \* the Set, as the sequence of its members in insertion order
    compareBtn,         \* the #compareBtn element (href, style.display) or NoElement
    alertShown,         \* whether the most recent togglePackageComparison call raised alert()
    packageId,          \* argument of the most recent togglePackageComparison call
    prevId,             \* argument of the call before that
    before,             \* selectedPackages as the most recent call found it
    before2,            \* selectedPackages as the call before that found it
    \* two further, independent page views (their own Set and #compareBtn)
    selA, btnA, selB, btnB,
    \* main.js, debounce(func, wait) as used by the search input
    timeout,            \* the closure's `timeout`: id of the timer set last, 0 while undefined
    timers,             \* the event loop's pending timers, each [id, args]
    nextTimer,          \* the id setTimeout hands out next
    funcCalls,          \* the arguments func has been invoked with, in order
    submitted,          \* the search terms e.target.form.submit() was called for
    burst,              \* arguments of the calls since func last ran
    \* mapbox.js, one ExploreEaseMap
    mapboxgl,           \* "loaded" or "undefined": whether the library's global exists
    container,          \* what the #map element shows: "empty", "map", "fallback" ("absent": no element)
    instance,           \* "none", "held" (by the caller of new), "local" (to initPackageMap), "failed"
    map,                \* this.map: "null" or "map"
    listening,          \* whether init registered the map's 'error' handler
    markers,            \* this.markers
    nextMarker,         \* identity of the Marker object created next
    returned,           \* what the most recent addMarker / addPackageMarker call returned
    lastCall,           \* the most recent operation on the map
    failed,             \* whether the library has failed to initialize the map
    propagated,         \* whether a failure reached the caller of ExploreEaseMap / initPackageMap
    added               \* the markers returned since construction or the last destroy

selVars == <<selectedPackages, compareBtn, alertShown, packageId, prevId, before, before2>>
pairVars == <<selA, btnA, selB, btnB>>
debVars == <<timeout, timers, nextTimer, funcCalls, submitted, burst>>
mapVars == <<mapboxgl, container, instance, map, listening, markers, nextMarker,
             returned, lastCall, failed, propagated, added>>
vars == <<selVars, pairVars, debVars, mapVars>>

----------------------------------------------------------------------------
(* Bounds *)

NumIds == 4         \* how many plain package identifiers are offered to toggle
MaxCalls == 3       \* how many times the debounced function is called
MaxTermLen == 3     \* longest search term typed
MaxMarkers == 2     \* how many Marker objects are created
MaxCoord == 2       \* coordinates range over 0..MaxCoord

(* Program constants *)

MaxCompare == 3     \* main.js:122  selectedPackages.size < 3
MinSearchLen == 3   \* main.js:108  searchTerm.length >= 3

----------------------------------------------------------------------------
(* Identifiers *)

\* The text of the i-th plain identifier: a single unreserved token.
P(i) == <<"p" \o ToString(i)>>

PlainIds == {P(i) : i \in 1..NumIds}

\* An identifier whose text holds the URI's reserved characters:
\* the string "p1&package_id=p2".
Crafted == <<"p1", "&", "package_id", "=", "p2">>

\* What togglePackageComparison may be called with: any non-empty token.
Ids == PlainIds \cup {Crafted}

NoId == <<>>        \* no call yet

----------------------------------------------------------------------------
(* JavaScript Set, in insertion order *)

Members(sel) == {sel[i] : i \in 1..Len(sel)}

SetHas(sel, id) == id \in Members(sel)

SetAdd(sel, id) == IF SetHas(sel, id) THEN sel ELSE Append(sel, id)

SetDelete(sel, id) == SelectSeq(sel, LAMBDA x : x # id)

SetSize(sel) == Len(sel)

----------------------------------------------------------------------------
(* togglePackageComparison: the Set after the call *)

\* Variant: the delete branch drops the oldest member instead of id.
ToggleEvictsOldest(sel, id) ==
    IF SetHas(sel, id) THEN Tail(sel)
    ELSE IF SetSize(sel) < MaxCompare THEN SetAdd(sel, id) ELSE sel

\* Variant: the capacity test reads size <= 3.
ToggleOffByOne(sel, id) ==
    IF SetHas(sel, id) THEN SetDelete(sel, id)
    ELSE IF SetSize(sel) <= MaxCompare THEN SetAdd(sel, id) ELSE sel

\* Variant: at capacity the new id replaces the oldest member.
ToggleReplacesAtCapacity(sel, id) ==
    IF SetHas(sel, id) THEN SetDelete(sel, id)
    ELSE IF SetSize(sel) < MaxCompare THEN SetAdd(sel, id)
    ELSE Append(Tail(sel), id)

\* main.js:119-127
ToggledSet(sel, id) ==
    IF SetHas(sel, id) THEN SetDelete(sel, id)
    ELSE IF SetSize(sel) < MaxCompare THEN SetAdd(sel, id) ELSE sel

(* togglePackageComparison: whether the call reaches alert(...) *)

\* Variant: the capacity test comes before the membership test.
AlertsWheneverFull(sel, id) == ~(SetSize(sel) < MaxCompare)

ToggleAlerts(sel, id) == ~SetHas(sel, id) /\ ~(SetSize(sel) < MaxCompare)

----------------------------------------------------------------------------
(* updateComparisonButton *)

NoElement == [element |-> "null"]       \* getElementById found nothing

\* #compareBtn as the page is served, before any script touched it.
CompareBtnInitial == [href |-> <<>>, display |-> "none"]

RECURSIVE Join(_, _)
\* Array.prototype.join
Join(arr, sep) ==
    IF arr = <<>> THEN <<>>
    ELSE IF Len(arr) = 1 THEN arr[1]
    ELSE arr[1] \o sep \o Join(Tail(arr), sep)

\* `/compare?package_id=${Array.from(selectedPackages).join('&package_id=')}`
CompareHref(sel) ==
    <<"/compare", "?", "package_id", "=">> \o Join(sel, <<"&", "package_id", "=">>)

\* Variant: the button is filled in only while it is still hidden.
UpdateOnlyWhenHidden(btn, sel) ==
    IF btn # NoElement /\ SetSize(sel) > 0 /\ btn.display = "none"
    THEN [href |-> CompareHref(sel), display |-> "block"]
    ELSE btn

updateComparisonButton(btn, sel) ==
    IF btn # NoElement /\ SetSize(sel) > 0
    THEN [href |-> CompareHref(sel), display |-> "block"]
    ELSE btn

----------------------------------------------------------------------------
(* The page under observation *)

SelInit ==
    /\ selectedPackages = <<>>
    /\ compareBtn \in {NoElement, CompareBtnInitial}
    /\ alertShown = FALSE
    /\ packageId = NoId
    /\ prevId = NoId
    /\ before = <<>>
    /\ before2 = <<>>

togglePackageComparison(id) ==
    /\ selectedPackages' = ToggledSet(selectedPackages, id)
    /\ alertShown' = ToggleAlerts(selectedPackages, id)
    /\ compareBtn' = updateComparisonButton(compareBtn, selectedPackages')
    /\ packageId' = id
    /\ prevId' = packageId
    /\ before' = selectedPackages
    /\ before2' = before
    /\ UNCHANGED <<pairVars, debVars, mapVars>>

(* Two further page views, each with its own Set and its own #compareBtn *)

PairInit ==
    /\ selA = <<>>
    /\ selB = <<>>
    /\ btnA \in {NoElement, CompareBtnInitial}
    /\ btnB \in {NoElement, CompareBtnInitial}

toggleInViewA(id) ==
    /\ selA' = ToggledSet(selA, id)
    /\ btnA' = updateComparisonButton(btnA, selA')
    /\ UNCHANGED <<selB, btnB, selVars, debVars, mapVars>>

toggleInViewB(id) ==
    /\ selB' = ToggledSet(selB, id)
    /\ btnB' = updateComparisonButton(btnB, selB')
    /\ UNCHANGED <<selA, btnA, selVars, debVars, mapVars>>

----------------------------------------------------------------------------
(* debounce(func, wait) and the search input's handler *)

\* clearTimeout(id): the pending timer of that id, if any, is dropped.
clearTimeout(ts, id) == {t \in ts : t.id # id}

\* setTimeout(later, wait), later closing over args.
setTimeout(ts, id, args) == ts \cup {[id |-> id, args |-> args]}

\* Variant: the call sets a timer without clearing the pending one.
CallKeepsOldTimer(ts, last, id, args) == setTimeout(ts, id, args)

\* executedFunction: clearTimeout(timeout); timeout = setTimeout(later, wait)
TimersAfterCall(ts, last, id, args) == setTimeout(clearTimeout(ts, last), id, args)

\* The search handler's test: searchTerm.length >= 3 || searchTerm.length === 0
SearchSubmits(termLen) == termLen >= MinSearchLen \/ termLen = 0

Terms == 0..MaxTermLen      \* a search term, by its length

DebInit ==
    /\ timeout = 0
    /\ timers = {}
    /\ nextTimer = 1
    /\ funcCalls = <<>>
    /\ submitted = <<>>
    /\ burst = <<>>

\* An input event: the debounced handler is called with it.
executedFunction(args) ==
    /\ nextTimer <= MaxCalls
    /\ timers' = TimersAfterCall(timers, timeout, nextTimer, args)
    /\ timeout' = nextTimer
    /\ nextTimer' = nextTimer + 1
    /\ burst' = Append(burst, args)
    /\ UNCHANGED <<funcCalls, submitted>>
    /\ UNCHANGED <<selVars, pairVars, mapVars>>

\* A pending timer expires: later() runs clearTimeout(timeout); func(...args).
later(t) ==
    /\ t \in timers
    /\ timers' = clearTimeout(timers \ {t}, timeout)
    /\ funcCalls' = Append(funcCalls, t.args)
    /\ submitted' = IF SearchSubmits(t.args) THEN Append(submitted, t.args) ELSE submitted
    /\ burst' = <<>>
    /\ UNCHANGED <<timeout, nextTimer>>
    /\ UNCHANGED <<selVars, pairVars, mapVars>>

TimerFires == \E t \in timers : later(t)

----------------------------------------------------------------------------
(* ExploreEaseMap *)

NullMarker == [id |-> 0]

Coords == 1..MaxCoord       \* a usable coordinate; 0 stands for the falsy ones (0, NaN)

Popups == {"none", "html"}

\* How the library answers init: it works, new mapboxgl.Map throws, or an
\* addControl call throws.
Faults == {"none", "Map", "addControl"}

\* showFallbackMap: the container's innerHTML becomes the "Map Unavailable" block.
showFallbackMap(cont) == IF cont # "absent" THEN "fallback" ELSE cont

\* constructor + init: this.map, whether the handlers got registered, the
\* container, and whether an exception left the constructor.
ConstructorResult(lib, fault, cont) ==
    IF lib = "undefined"
    THEN \* line 18, outside the try: ReferenceError
         [map |-> "null", listening |-> FALSE, container |-> cont, threw |-> TRUE]
    ELSE IF fault = "Map"
    THEN [map |-> "null", listening |-> FALSE, container |-> showFallbackMap(cont), threw |-> FALSE]
    ELSE IF fault = "addControl"
    THEN \* this.map is already assigned; the Map has filled the container
         [map |-> "map", listening |-> FALSE, container |-> showFallbackMap("map"), threw |-> FALSE]
    ELSE [map |-> "map", listening |-> TRUE, container |-> "map", threw |-> FALSE]

\* addMarker: this.markers afterwards, the value returned, the next Marker identity.
AddMarkerResult(m, ms, n, lngLat, popup) ==
    IF m = "null" THEN [markers |-> ms, ret |-> NullMarker, next |-> n]
    ELSE LET marker == [id |-> n, lngLat |-> lngLat, popup |-> popup] IN
         [markers |-> Append(ms, marker), ret |-> marker, next |-> n + 1]

\* Variant: destroy without this.markers = [].
DestroyKeepsMarkers(m, ms, cont) ==
    [map |-> "null", markers |-> ms, container |-> IF m # "null" /\ cont = "map" THEN "empty" ELSE cont]

\* destroy: this.map, this.markers and the container afterwards
\* (map.remove() takes the map's own elements out of the container).
DestroyResult(m, ms, cont) ==
    [map |-> "null", markers |-> <<>>, container |-> IF m # "null" /\ cont = "map" THEN "empty" ELSE cont]

AddedAfter(ret, log) == IF ret # NullMarker THEN Append(log, ret) ELSE log

MapInit ==
    /\ mapboxgl \in {"loaded", "undefined"}
    /\ container = "empty"
    /\ instance = "none"
    /\ map = "null"
    /\ listening = FALSE
    /\ markers = <<>>
    /\ nextMarker = 1
    /\ returned = NullMarker
    /\ lastCall = "none"
    /\ failed = FALSE
    /\ propagated = FALSE
    /\ added = <<>>

\* new ExploreEaseMap('map', options), called directly.
newExploreEaseMap(fault) ==
    /\ instance = "none"
    /\ LET r == ConstructorResult(mapboxgl, fault, container) IN
        /\ map' = r.map
        /\ listening' = r.listening
        /\ container' = r.container
        /\ instance' = IF r.threw THEN "failed" ELSE "held"
        /\ propagated' = r.threw
        /\ failed' = (mapboxgl = "undefined" \/ fault # "none")
    /\ lastCall' = "new"
    /\ UNCHANGED <<mapboxgl, markers, nextMarker, returned, added>>
    /\ UNCHANGED <<selVars, pairVars, debVars>>

\* initPackageMap(latitude, longitude, packageName)
initPackageMap(latitude, longitude, fault) ==
    /\ instance = "none"
    /\ lastCall' = "initPackageMap"
    /\ IF latitude = 0 \/ longitude = 0
       THEN UNCHANGED <<container, instance, map, listening, markers, nextMarker,
                        returned, failed, propagated, added>>
       ELSE LET r == ConstructorResult(mapboxgl, fault, container)
                a == AddMarkerResult(r.map, <<>>, nextMarker, <<longitude, latitude>>, "html")
            IN  /\ map' = r.map
                /\ listening' = r.listening
                /\ container' = r.container
                /\ failed' = (mapboxgl = "undefined" \/ fault # "none")
                /\ propagated' = FALSE              \* the catch at line 148 logs and returns
                /\ instance' = IF r.threw THEN "failed" ELSE "local"
                /\ markers' = IF r.threw THEN <<>> ELSE a.markers
                /\ nextMarker' = IF r.threw THEN nextMarker ELSE a.next
                /\ returned' = IF r.threw THEN returned ELSE a.ret
                /\ added' = IF r.threw THEN added ELSE AddedAfter(a.ret, added)
    /\ UNCHANGED mapboxgl
    /\ UNCHANGED <<selVars, pairVars, debVars>>

\* The map emits 'error': the handler registered in init shows the fallback.
mapError ==
    /\ listening
    /\ map = "map"
    /\ container' = showFallbackMap(container)
    /\ failed' = TRUE
    /\ lastCall' = "error"
    /\ UNCHANGED <<mapboxgl, instance, map, listening, markers, nextMarker,
                   returned, propagated, added>>
    /\ UNCHANGED <<selVars, pairVars, debVars>>

\* The body of addMarker, run on the instance its caller holds.
MarkerCall(lngLat, popup) ==
    /\ instance = "held"
    /\ nextMarker <= MaxMarkers
    /\ LET a == AddMarkerResult(map, markers, nextMarker, lngLat, popup) IN
        /\ markers' = a.markers
        /\ nextMarker' = a.next
        /\ returned' = a.ret
        /\ added' = AddedAfter(a.ret, added)
    /\ UNCHANGED <<mapboxgl, container, instance, map, listening, failed, propagated>>
    /\ UNCHANGED <<selVars, pairVars, debVars>>

addMarker(lngLat, popup) ==
    /\ lastCall' = "addMarker"
    /\ MarkerCall(lngLat, popup)

\* addPackageMarker(packageData): addMarker([longitude, latitude], {popup: ...})
addPackageMarker(longitude, latitude) ==
    /\ lastCall' = "addPackageMarker"
    /\ MarkerCall(<<longitude, latitude>>, "html")

destroy ==
    /\ instance = "held"
    /\ LET d == DestroyResult(map, markers, container) IN
        /\ map' = d.map
        /\ markers' = d.markers
        /\ container' = d.container
    /\ listening' = FALSE
    /\ added' = <<>>
    /\ lastCall' = "destroy"
    /\ UNCHANGED <<mapboxgl, instance, nextMarker, returned, failed, propagated>>
    /\ UNCHANGED <<selVars, pairVars, debVars>>

----------------------------------------------------------------------------
\* A page that has no comparison widget in use.
SelAbsent ==
    /\ selectedPackages = <<>>
    /\ compareBtn = NoElement
    /\ alertShown = FALSE
    /\ packageId = NoId
    /\ prevId = NoId
    /\ before = <<>>
    /\ before2 = <<>>

PairAbsent ==
    /\ selA = <<>>
    /\ selB = <<>>
    /\ btnA = NoElement
    /\ btnB = NoElement

\* A page with no #map element and no map script running.
MapAbsent ==
    /\ mapboxgl = "undefined"
    /\ container = "absent"
    /\ instance = "none"
    /\ map = "null"
    /\ listening = FALSE
    /\ markers = <<>>
    /\ nextMarker = 1
    /\ returned = NullMarker
    /\ lastCall = "none"
    /\ failed = FALSE
    /\ propagated = FALSE
    /\ added = <<>>

----------------------------------------------------------------------------
(* The comparison widget of one page view *)

Init == SelInit /\ PairAbsent /\ DebInit /\ MapAbsent

Next == \E id \in Ids : togglePackageComparison(id)

Spec == Init /\ [][Next]_vars

(* Two page views side by side *)

InitPair == SelAbsent /\ PairInit /\ DebInit /\ MapAbsent

NextPair ==
    \/ \E id \in Ids : toggleInViewA(id)
    \/ \E id \in Ids : toggleInViewB(id)

SpecPair == InitPair /\ [][NextPair]_vars

(* The search input: input events and timer expirations, interleaved *)

InitDebounce == SelAbsent /\ PairAbsent /\ DebInit /\ MapAbsent

NextDebounce ==
    \/ \E args \in Terms : executedFunction(args)
    \/ TimerFires

\* The event loop runs a timer that stays due.
SpecDebounce == InitDebounce /\ [][NextDebounce]_vars /\ WF_vars(TimerFires)

(* A page with a #map element *)

InitMap == SelAbsent /\ PairAbsent /\ DebInit /\ MapInit

NextMap ==
    \/ \E fault \in Faults : newExploreEaseMap(fault)
    \/ \E lat \in 0..MaxCoord, lng \in 0..MaxCoord, fault \in Faults : initPackageMap(lat, lng, fault)
    \/ mapError
    \/ \E lng \in Coords, lat \in Coords, popup \in Popups : addMarker(<<lng, lat>>, popup)
    \/ \E lng \in Coords, lat \in Coords : addPackageMarker(lng, lat)
    \/ destroy

SpecMap == InitMap /\ [][NextMap]_vars

----------------------------------------------------------------------------
(* Reading a URI back: path, and the query's name=value parameters *)

FirstIndex(s, t) ==
    IF \E i \in 1..Len(s) : s[i] = t
    THEN CHOOSE i \in 1..Len(s) : s[i] = t /\ \A j \in 1..(i - 1) : s[j] # t
    ELSE 0

RECURSIVE Split(_, _)
Split(s, sep) ==
    LET i == FirstIndex(s, sep) IN
    IF i = 0 THEN <<s>>
    ELSE <<SubSeq(s, 1, i - 1)>> \o Split(SubSeq(s, i + 1, Len(s)), sep)

UriPath(uri) ==
    LET q == FirstIndex(uri, "?") IN
    IF q = 0 THEN uri ELSE SubSeq(uri, 1, q - 1)

UriQuery(uri) ==
    LET q == FirstIndex(uri, "?") IN
    IF q = 0 THEN <<>> ELSE SubSeq(uri, q + 1, Len(uri))

QueryParam(piece) ==
    LET e == FirstIndex(piece, "=") IN
    IF e = 0 THEN [name |-> piece, value |-> <<>>]
    ELSE [name |-> SubSeq(piece, 1, e - 1), value |-> SubSeq(piece, e + 1, Len(piece))]

\* The query's parameters, in order.
QueryParams(uri) ==
    LET pieces == Split(UriQuery(uri), "&") IN
    [i \in 1..Len(pieces) |-> QueryParam(pieces[i])]

\* The values of the package_id parameters, in order.
PackageIdValues(uri) ==
    LET ps == SelectSeq(QueryParams(uri), LAMBDA p : p.name = <<"package_id">>) IN
    [i \in 1..Len(ps) |-> ps[i].value]

Count(v, s) == Cardinality({i \in 1..Len(s) : s[i] = v})

\* uri is /compare with exactly one package_id parameter per member of sel
\* and no other parameter.
LinkEnumerates(uri, sel) ==
    /\ UriPath(uri) = <<"/compare">>
    /\ \A i \in 1..Len(QueryParams(uri)) : QueryParams(uri)[i].name = <<"package_id">>
    /\ Members(PackageIdValues(uri)) = Members(sel)
    /\ \A id \in Members(sel) : Count(id, PackageIdValues(uri)) = 1

\* "no link": the compare action is hidden and carries no target.
NoLink(btn) == btn = NoElement \/ (btn.display = "none" /\ btn.href = <<>>)

----------------------------------------------------------------------------
(* Claims about the selection *)

\* C1: in every reachable state the number of selected packages is at most 3.
C1_AtMostThree == Cardinality(Members(selectedPackages)) <= MaxCompare

\* C1 witness: an addition was attempted on a full selection.
C1_Witness ==
    /\ Cardinality(Members(selectedPackages)) = MaxCompare
    /\ Len(before) = MaxCompare
    /\ packageId \in Ids \ Members(before)

\* C2: a toggle raises the notice exactly when its id is not selected and 3
\* packages are selected, and then it leaves the selection unchanged.
C2_RejectStep ==
    LET rejected == /\ packageId' \notin Members(selectedPackages)
                    /\ Cardinality(Members(selectedPackages)) = MaxCompare
    IN  /\ alertShown' <=> rejected
        /\ rejected => selectedPackages' = selectedPackages

\* C2: every step of the page is such a step.
C2_NoticeOnlyOnReject == [][C2_RejectStep]_vars

\* C2 witness: the notice was raised by a call that found 3 packages selected.
C2_Witness ==
    /\ alertShown
    /\ Len(before) = MaxCompare
    /\ packageId \notin Members(before)
    /\ selectedPackages = before

\* C3 (the claim as stated): whenever the selection is empty the comparison
\* link reports "no link".
C3_EmptyMeansNoLink == selectedPackages = <<>> => NoLink(compareBtn)

\* C4 (the claim as stated): whenever a toggle has left the selection
\* non-empty, the link target is /compare with exactly one package_id
\* parameter per selected identifier and nothing else.
C4_LinkEnumeratesSelection ==
    (packageId # NoId /\ compareBtn # NoElement /\ selectedPackages # <<>>)
        => LinkEnumerates(compareBtn.href, selectedPackages)

\* C4, for identifiers that hold none of the URI's reserved characters: the
\* link target enumerates the selection.
C4_PlainIdsEnumerated ==
    (packageId # NoId /\ compareBtn # NoElement /\ selectedPackages # <<>>
        /\ Members(selectedPackages) \subseteq PlainIds)
        => LinkEnumerates(compareBtn.href, selectedPackages)

\* C5: when the two most recent toggles had the same id, the membership is
\* what it was before the first of the two.
C5_TogglePair ==
    (packageId # NoId /\ prevId = packageId)
        => Members(selectedPackages) = Members(before2)

\* C5 witness: an id that was not selected was toggled twice on a full selection.
C5_Witness ==
    /\ packageId # NoId
    /\ prevId = packageId
    /\ Len(before2) = MaxCompare
    /\ packageId \notin Members(before2)

\* C6 (the claim as stated): two histories that end in the same non-empty
\* set of selected identifiers produce the same comparison URI.
C6_SameSetSameLink ==
    (btnA # NoElement /\ btnB # NoElement /\ selA # <<>> /\ Members(selA) = Members(selB))
        => btnA.href = btnB.href

\* C6 (amended): two histories that end in the same non-empty selection
\* produce URIs with the same path and the same package_id values, each as
\* many times; the URIs are equal when the insertion orders are equal.
C6_SameSetSameParams ==
    (btnA # NoElement /\ btnB # NoElement /\ selA # <<>> /\ Members(selA) = Members(selB))
        => /\ UriPath(btnA.href) = UriPath(btnB.href)
           /\ \A v \in Members(PackageIdValues(btnA.href)) \cup Members(PackageIdValues(btnB.href)) :
                Count(v, PackageIdValues(btnA.href)) = Count(v, PackageIdValues(btnB.href))
           /\ selA = selB => btnA.href = btnB.href

\* C6 witness: p1 then p2 in one view, p2 then p1 in the other.
C6_Witness ==
    /\ btnA # NoElement
    /\ btnB # NoElement
    /\ selA = <<P(1), P(2)>>
    /\ selB = <<P(2), P(1)>>

\* C7: a toggle of a selected id removes exactly that id; a toggle of an
\* unselected id while fewer than 3 are selected adds exactly that id.
C7_FrameStep ==
    LET id == packageId'
        M  == Members(selectedPackages)
        N  == Members(selectedPackages')
    IN  /\ id \in M => N = M \ {id} /\ Cardinality(N) = Cardinality(M) - 1
        /\ (id \notin M /\ Cardinality(M) < MaxCompare)
              => N = M \cup {id} /\ Cardinality(N) = Cardinality(M) + 1

\* C7: the trace empty -> p1 -> p2 -> p3 -> p4 -> p1.
C7_Trace ==
    LET s1 == ToggledSet(<<>>, P(1))
        s2 == ToggledSet(s1, P(2))
        s3 == ToggledSet(s2, P(3))
        s4 == ToggledSet(s3, P(4))
        s5 == ToggledSet(s4, P(1))
    IN  /\ Members(s1) = {P(1)}
        /\ Members(s2) = {P(1), P(2)}
        /\ Members(s3) = {P(1), P(2), P(3)}
        /\ Members(s4) = {P(1), P(2), P(3)}
        /\ Members(s5) = {P(2), P(3)}

\* C7: the trace comes out as stated and every toggle step changes exactly
\* the membership of its own id.
C7_ToggleFrame == C7_Trace /\ [][C7_FrameStep]_vars

\* C7 witness: the end of the trace, p1 removed from a full selection right
\* after p4 was rejected.
C7_Witness ==
    /\ selectedPackages = <<P(2), P(3)>>
    /\ before = <<P(1), P(2), P(3)>>
    /\ packageId = P(1)
    /\ before2 = before
    /\ prevId = P(4)

----------------------------------------------------------------------------
(* Claims about the map *)

\* C8 (the claim as stated): once the library has failed to initialize the
\* map, no failure has reached the caller and the container shows the
\* "Map Unavailable" fallback.
C8_FailureShowsFallback == failed => (~propagated /\ container = "fallback")

\* C8, for a page on which the library's script has loaded.
C8_LoadedLibraryFallsBack ==
    (mapboxgl = "loaded" /\ failed) => (~propagated /\ container = "fallback")

\* C10: markers is always the list of markers returned since construction or
\* the last destroy.
C10_Inv == markers = added

\* C10: addMarker / addPackageMarker on a null map returns null and leaves
\* markers alone, on a non-null map appends exactly the marker it returns;
\* destroy leaves map null and markers empty.
C10_Step ==
    /\ lastCall' \in {"addMarker", "addPackageMarker"} =>
          IF map = "null"
          THEN returned' = NullMarker /\ markers' = markers
          ELSE returned' # NullMarker /\ markers' = Append(markers, returned')
    /\ lastCall' = "destroy" => map' = "null" /\ markers' = <<>>

\* C10: markers holds exactly the markers added since construction or the
\* last destroy, and every addMarker, addPackageMarker and destroy step is
\* as described.
C10_MarkersTracked == []C10_Inv /\ [][C10_Step]_vars

\* C10 witness: markers were added, destroy ran, and a later addMarker
\* returned null.
C10_Witness ==
    /\ instance = "held"
    /\ nextMarker > 1
    /\ map = "null"
    /\ markers = <<>>
    /\ lastCall \in {"addMarker", "addPackageMarker"}
    /\ returned = NullMarker

----------------------------------------------------------------------------
(* Claims about debounce *)

\* C9: at most one timer is pending; a timer is pending exactly while a
\* burst is open, and it carries the arguments of the burst's last call.
C9_Inv ==
    /\ Cardinality(timers) <= 1
    /\ timers # {} <=> burst # <<>>
    /\ \A t \in timers : t.id = timeout /\ t.args = burst[Len(burst)]

\* C9: a call never invokes func; a timer expiration closes the open burst
\* and invokes func once, with the arguments of the burst's last call.
C9_Step ==
    IF nextTimer' # nextTimer
    THEN funcCalls' = funcCalls
    ELSE /\ burst # <<>>
         /\ burst' = <<>>
         /\ funcCalls' = Append(funcCalls, burst[Len(burst)])

\* C9: one pending timer at most, no synchronous invocation, one invocation
\* per burst with the last call's arguments, and every burst is closed by
\* such an invocation.
C9_DebounceOncePerBurst ==
    /\ []C9_Inv
    /\ [][C9_Step]_vars
    /\ (burst # <<>>) ~> (burst = <<>>)

\* C9 witness: a burst of two calls with different arguments has been
\* answered by one invocation, with the second call's arguments.
C9_Witness ==
    /\ nextTimer = 3
    /\ funcCalls = <<2>>
    /\ burst = <<>>
    /\ timers = {}

====
